---------------------------- MODULE Spec2Model ----------------------------
(***************************************************************************)
(* Model of src/src/main.rs: the base counter (count_bases), the whole-    *)
(* sequence GC ratio (get_total_gc_content) and the sliding-window series  *)
(* (SlidingWindowAverage::new / next) as plot() drives it through zip.     *)
(*                                                                         *)
(* Conventions.                                                            *)
(*  - A byte is its ASCII code; a slice is a TLA+ sequence; Rust index i   *)
(*    is position i+1 of the sequence (ByteAt).                            *)
(*  - u64 / usize values stay far below 2^64 in every run, so they are     *)
(*    plain integers, except where the code can wrap: a u64 that wrapped   *)
(*    below zero is kept as its residue r < 0, standing for 2^64 + r,      *)
(*    which is exact for wrapping += and -=; usize 0 - 1 is handled in     *)
(*    Guard.  overflow_checks is the build profile: TRUE (debug) makes an  *)
(*    arithmetic overflow panic, FALSE (release) makes it wrap.            *)
(*  - A float is a record: finite num/den, or NaN for 0/0.                 *)
(*  - plot() passes its constants SIZE and STEP to new(); the model keeps  *)
(*    them as the parameters size and step of the series.                  *)
(***************************************************************************)
EXTENDS Integers, Sequences, FiniteSets

VARIABLES
    data,             \* record.seq(): the borrowed byte slice
    size,             \* SlidingWindowAverage.size
    step,             \* SlidingWindowAverage.step
    overflow_checks,  \* build profile: overflow panics (TRUE) or wraps (FALSE)
    pc,               \* "start", "series" (new returned), "panic"
    sum,              \* SlidingWindowAverage.sum
    idx,              \* SlidingWindowAverage.idx
    last,             \* what the latest next() returned
    calls,            \* number of next() calls made
    samples,          \* the Some(..) values next() returned, in order
    pairs,            \* the (x, y) pairs zip handed to AreaSeries::new
    reads,            \* byte indices the latest new()/next() call indexed
    wrapped,          \* some u64 subtraction wrapped below zero
    count,            \* result of count_bases(record)
    gc                \* result of get_total_gc_content(record)

vars == <<data, size, step, overflow_checks, pc, sum, idx, last, calls,
          samples, pairs, reads, wrapped, count, gc>>

-----------------------------------------------------------------------------
(* Bounds of the model *)

MaxLen == 6        \* longest slice given to the sliding window
MaxStep == 2       \* largest step given to the sliding window
MaxCalls == 5      \* next() calls per series
MaxCountLen == 4   \* longest slice given to count_bases

(* ASCII *)
ByteA == 65
ByteC == 67
ByteG == 71
ByteT == 84

\* bytes of the slices tried: the canonical bases, and 'N' (78) and 'g' (103)
WindowBytes == {ByteG, ByteC, ByteA}
CountBytes == {ByteA, ByteC, ByteT, ByteG, 78, 103}

SeqsUpTo(S, n) == UNION {[1..k -> S] : k \in 0..n}

ByteAt(d, i) == d[i + 1]

-----------------------------------------------------------------------------
(* Floats *)

NaN == [class |-> "nan"]
Finite(n, d) == [class |-> "finite", num |-> n, den |-> d]

\* n as f / d as f, for n >= 0, d >= 0
FloatDiv(n, d) ==
    IF d = 0 THEN (IF n = 0 THEN NaN ELSE [class |-> "inf"]) ELSE Finite(n, d)

-----------------------------------------------------------------------------
(* count_bases, get_total_gc_content *)

NoCount == [unset |-> TRUE]
NoRatio == [unset |-> TRUE]

BaseCountDefault == [a |-> 0, c |-> 0, t |-> 0, g |-> 0, other |-> 0]

\* the match of the loop body: the field the byte increments
Classify_caseInsensitive(base) ==
    CASE base = ByteA -> "a"
      [] base = ByteC -> "c"
      [] base = ByteT -> "t"
      [] base \in {ByteG, 103} -> "g"
      [] OTHER -> "other"

Classify(base) ==
    CASE base = ByteA -> "a"
      [] base = ByteC -> "c"
      [] base = ByteT -> "t"
      [] base = ByteG -> "g"
      [] OTHER -> "other"

RECURSIVE CountLoop(_, _, _)
CountLoop(d, i, cnt) ==
    IF i >= Len(d) THEN cnt
    ELSE CountLoop(d, i + 1, [cnt EXCEPT ![Classify(ByteAt(d, i))] = @ + 1])

CountBases(d) == CountLoop(d, 0, BaseCountDefault)

GetTotalGcContent(d) ==
    LET cnt == CountBases(d)
        at == cnt.a + cnt.t
        gcs == cnt.g + cnt.c
    IN  [ty |-> "f64", val |-> FloatDiv(gcs, at + gcs)]

-----------------------------------------------------------------------------
(* SlidingWindowAverage *)

None == [some |-> FALSE]
Some(v) == [some |-> TRUE, val |-> v]
NotCalled == [called |-> FALSE]

\* match data[..] { b'G' | b'C' => 1, _ => 0 }
GcContribution(byte) == IF byte \in {ByteG, ByteC} THEN 1 ELSE 0

\* for i in 0..size { first_window_sum += match data[i] ... }
RECURSIVE NewLoop(_, _, _, _)
NewLoop(d, sz, i, acc) ==
    IF i >= sz THEN acc
    ELSE IF i >= Len(d)
         THEN [acc EXCEPT !.reads = @ \cup {i}, !.panic = TRUE]
         ELSE NewLoop(d, sz, i + 1,
                      [acc EXCEPT !.sum = @ + GcContribution(ByteAt(d, i)),
                                  !.reads = @ \cup {i}])

NewOutcome(d, sz) ==
    NewLoop(d, sz, 0, [sum |-> 0, reads |-> {}, panic |-> FALSE, wrapped |-> FALSE])

\* self.idx + self.size + self.step < self.data.len() - 1
Guard_windowOnly(len, i, sz, st, chk) ==
    IF len = 0 THEN (IF chk THEN "panic" ELSE "advance")
    ELSE IF i + sz < len THEN "advance" ELSE "stop"

Guard(len, i, sz, st, chk) ==
    IF len = 0 THEN (IF chk THEN "panic" ELSE "advance")
    ELSE IF i + sz + st < len - 1 THEN "advance" ELSE "stop"

\* self.data[self.idx + i]
LeavingIndex_offByOne(i0, i) == i0 + i + 1

LeavingIndex(i0, i) == i0 + i

\* self.data[self.idx + self.size + i]
EnteringIndex(i0, sz, i) == i0 + sz + i

\* for i in 0..self.step { self.sum -= match self.data[self.idx + i] ... }
RECURSIVE SubLoop(_, _, _, _, _, _)
SubLoop(d, i0, st, chk, i, acc) ==
    IF i >= st THEN acc
    ELSE LET j == LeavingIndex(i0, i) IN
         IF j >= Len(d)
         THEN [acc EXCEPT !.reads = @ \cup {j}, !.panic = TRUE]
         ELSE LET v == acc.sum - GcContribution(ByteAt(d, j))
                  seen == [acc EXCEPT !.reads = @ \cup {j}]
              IN  IF v < 0 /\ acc.sum >= 0
                  THEN IF chk
                       THEN [seen EXCEPT !.panic = TRUE]
                       ELSE SubLoop(d, i0, st, chk, i + 1,
                                    [seen EXCEPT !.sum = v, !.wrapped = TRUE])
                  ELSE SubLoop(d, i0, st, chk, i + 1, [seen EXCEPT !.sum = v])

\* for i in 0..self.step { self.sum += match self.data[self.idx + self.size + i] ... }
RECURSIVE AddLoop(_, _, _, _, _, _)
AddLoop(d, i0, sz, st, i, acc) ==
    IF i >= st \/ acc.panic THEN acc
    ELSE LET j == EnteringIndex(i0, sz, i) IN
         IF j >= Len(d)
         THEN [acc EXCEPT !.reads = @ \cup {j}, !.panic = TRUE]
         ELSE AddLoop(d, i0, sz, st, i + 1,
                      [acc EXCEPT !.sum = @ + GcContribution(ByteAt(d, j)),
                                  !.reads = @ \cup {j}])

\* what a call leaves behind: the loop state, the new idx, the value returned
Outcome(acc, i, r) ==
    [panic |-> acc.panic, sum |-> acc.sum, reads |-> acc.reads,
     wrapped |-> acc.wrapped, idx |-> i, ret |-> r]

\* the body of next()
NextOutcome(d, s0, i0, sz, st, chk) ==
    LET g == Guard(Len(d), i0, sz, st, chk)
        acc0 == [sum |-> s0, reads |-> {}, panic |-> FALSE, wrapped |-> FALSE]
    IN  CASE g = "panic" -> Outcome([acc0 EXCEPT !.panic = TRUE], i0, None)
          [] g = "stop" -> Outcome(acc0, i0, None)
          [] OTHER ->
               LET acc == AddLoop(d, i0, sz, st, 0, SubLoop(d, i0, st, chk, 0, acc0))
               IN  IF acc.panic
                   THEN Outcome(acc, i0, None)
                   ELSE Outcome(acc, i0 + st, Some(FloatDiv(acc.sum, sz)))

\* (0..).step_by(STEP): the k-th value, k = 0, 1, ...
StepBy(st, k) == k * st

-----------------------------------------------------------------------------
(* Actions *)

Idle ==
    /\ pc = "start"
    /\ sum = 0 /\ idx = 0 /\ last = NotCalled /\ calls = 0
    /\ samples = <<>> /\ pairs = <<>> /\ reads = {} /\ wrapped = FALSE
    /\ count = NoCount /\ gc = NoRatio

\* let window_avg_iter = SlidingWindowAverage::new(record.seq(), SIZE, STEP);
new ==
    /\ pc = "start"
    /\ LET o == NewOutcome(data, size) IN
         /\ pc' = IF o.panic THEN "panic" ELSE "series"
         /\ sum' = o.sum
         /\ reads' = o.reads
         /\ idx' = 0
    /\ UNCHANGED <<data, size, step, overflow_checks, last, calls, samples,
                   pairs, wrapped, count, gc>>

\* one pull of (0..).step_by(STEP).zip(window_avg_iter): the range's value,
\* then window_avg_iter.next(); a pair when both are Some
next ==
    /\ pc = "series"
    /\ calls < MaxCalls
    /\ LET o == NextOutcome(data, sum, idx, size, step, overflow_checks) IN
         /\ pc' = IF o.panic THEN "panic" ELSE "series"
         /\ sum' = o.sum
         /\ idx' = o.idx
         /\ reads' = o.reads
         /\ wrapped' = (wrapped \/ o.wrapped)
         /\ last' = IF o.panic THEN last ELSE o.ret
         /\ samples' = IF ~o.panic /\ o.ret.some
                       THEN Append(samples, o.ret.val) ELSE samples
         /\ pairs' = IF ~o.panic /\ o.ret.some
                     THEN Append(pairs, [x |-> StepBy(step, calls), y |-> o.ret.val])
                     ELSE pairs
    /\ calls' = calls + 1
    /\ UNCHANGED <<data, size, step, overflow_checks, count, gc>>

count_bases ==
    /\ count = NoCount
    /\ count' = CountBases(data)
    /\ UNCHANGED <<data, size, step, overflow_checks, pc, sum, idx, last, calls,
                   samples, pairs, reads, wrapped, gc>>

get_total_gc_content ==
    /\ gc = NoRatio
    /\ gc' = GetTotalGcContent(data)
    /\ UNCHANGED <<data, size, step, overflow_checks, pc, sum, idx, last, calls,
                   samples, pairs, reads, wrapped, count>>

-----------------------------------------------------------------------------
(* The sliding window over every small slice and configuration *)

Init ==
    /\ data \in SeqsUpTo(WindowBytes, MaxLen)
    /\ size \in 0..(Len(data) + 1)
    /\ step \in 0..MaxStep
    /\ overflow_checks \in BOOLEAN
    /\ Idle

Next == new \/ next

Spec == Init /\ [][Next]_vars

(* The base counter and the whole-sequence ratio over every small slice *)

InitCount ==
    /\ data \in SeqsUpTo(CountBytes, MaxCountLen)
    /\ size = 0 /\ step = 0
    /\ overflow_checks \in BOOLEAN
    /\ Idle

NextCount == count_bases \/ get_total_gc_content

SpecCount == InitCount /\ [][NextCount]_vars


(* The fixed example: a slice of 25 bytes, window 10, step 5 *)

ExampleCfg == [len |-> 25, size |-> 10, step |-> 5]

ExampleBlocks ==
    { <<ByteG, ByteG, ByteG, ByteG, ByteG>>,
      <<ByteA, ByteA, ByteA, ByteA, ByteA>>,
      <<ByteG, ByteC, ByteA, ByteT, 78>> }

ExampleData ==
    { b1 \o b2 \o b3 \o b4 \o b5 : b1 \in ExampleBlocks, b2 \in ExampleBlocks,
                                   b3 \in ExampleBlocks, b4 \in ExampleBlocks,
                                   b5 \in ExampleBlocks }

InitExample ==
    /\ data \in ExampleData
    /\ size = ExampleCfg.size
    /\ step = ExampleCfg.step
    /\ overflow_checks \in BOOLEAN
    /\ Idle

SpecExample == InitExample /\ [][Next]_vars

-----------------------------------------------------------------------------
(* What the claims compare the code with: re-scans of the slice *)

\* number of bytes equal to 'G' or 'C' in d[from .. from+sz)
GCInWindow(d, from, sz) ==
    Cardinality({i \in from..(from + sz - 1) : i < Len(d) /\ d[i + 1] \in {71, 67}})

\* the GC ratio of the window d[from .. from+sz)
WindowRatio(d, from, sz) == Finite(GCInWindow(d, from, sz), sz)

\* number of bytes of d equal to b
Occurrences(d, b) == Cardinality({i \in 1..Len(d) : d[i] = b})

\* 0 < step <= window_size <= length(sequence)
ValidCfg == 1 <= step /\ step <= size /\ size <= Len(data)

-----------------------------------------------------------------------------
(* Claims *)

\* C1: with 1 <= step <= size <= len(data), the k-th sample returned by next()
\* (k = 0, 1, ...) is the re-scanned GC ratio of data[k*step .. k*step+size).
C1_KthSampleIsWindowK ==
    ValidCfg =>
        \A k \in 1..Len(samples) :
            samples[k] = WindowRatio(data, (k - 1) * step, size)

\* C2: count_bases tallies exactly the bytes equal to 'A', 'C', 'T', 'G', puts
\* every other byte in other, so the five counters add up to the length; the
\* empty slice gives the all-zero tally.
C2_TallyExact ==
    count # NoCount =>
        /\ count.a = Occurrences(data, 65)
        /\ count.c = Occurrences(data, 67)
        /\ count.t = Occurrences(data, 84)
        /\ count.g = Occurrences(data, 71)
        /\ count.other = Cardinality({i \in 1..Len(data) : data[i] \notin {65, 67, 84, 71}})
        /\ count.a + count.c + count.t + count.g + count.other = Len(data)
        /\ (data = <<>> => count = [a |-> 0, c |-> 0, t |-> 0, g |-> 0, other |-> 0])

C2_Witness ==
    /\ count # NoCount
    /\ count.a >= 1 /\ count.g >= 1 /\ count.other >= 2
    /\ \E i \in 1..Len(data) : data[i] = 103

\* C3: get_total_gc_content gives an explicit undefined outcome, not a float,
\* when a + t + g + c = 0, and (g + c) / (a + t + g + c) otherwise.
C3_ZeroDenominatorFlagged ==
    gc # NoRatio =>
        LET gcs == Occurrences(data, 71) + Occurrences(data, 67)
            den == gcs + Occurrences(data, 65) + Occurrences(data, 84)
        IN  IF den = 0
            THEN gc.ty = "undefined"
            ELSE gc = [ty |-> "f64", val |-> Finite(gcs, den)]

\* C4: for 25 bytes, window 10, step 5, the series gives exactly three samples
\* before None: the GC ratios of [0,10), [5,15), [10,20).
C4_ThreeSamples ==
    (pc = "series" /\ last = None) =>
        /\ Len(samples) = 3
        /\ samples[1] = WindowRatio(data, 0, 10)
        /\ samples[2] = WindowRatio(data, 5, 10)
        /\ samples[3] = WindowRatio(data, 10, 10)

C6_ZeroStepRejected == ~(pc = "series" /\ step = 0)

\* C7: with size > len(data), new() returns a failure as a value, not a panic,
\* and indexes no byte at or past len(data).
C7_OversizeWindowFailsCleanly ==
    (pc # "start" /\ size > Len(data)) =>
        /\ pc = "rejected"
        /\ \A i \in reads : i < Len(data)

\* C8: the k-th pair handed to the plot sink has x = k*STEP and y the GC ratio
\* of the bytes [x, x+SIZE).
C8_PairsConsistent ==
    ValidCfg =>
        \A k \in 1..Len(pairs) :
            /\ pairs[k].x = (k - 1) * step
            /\ pairs[k].y = WindowRatio(data, pairs[k].x, size)

\* C9: with step >= 1 and size <= len(data), every next() call either returns
\* a sample and advances idx by exactly step, or returns None and leaves idx
\* and sum unchanged; and once it returned None it returns None ever after.
C9_ExhaustionPermanent ==
    [][ (pc = "series" /\ calls' = calls + 1 /\ step >= 1 /\ size <= Len(data)) =>
            /\ pc' = "series"
            /\ \/ last' = None /\ idx' = idx /\ sum' = sum
               \/ /\ last' # NotCalled /\ last'.some
                  /\ last # None
                  /\ idx' = idx + step
      ]_vars

\* C10: with 1 <= step <= size <= len(data), after new() and any number of
\* next() calls the window is in bounds, sum is the number of 'G'/'C' bytes in
\* data[idx .. idx+size), 0 <= sum <= size, and no subtraction went below zero.
C10_RunningSumExact ==
    ValidCfg =>
        /\ pc # "panic"
        /\ ~wrapped
        /\ pc = "series" =>
              /\ idx + size <= Len(data)
              /\ sum = GCInWindow(data, idx, size)
              /\ 0 <= sum /\ sum <= size

C10_Witness ==
    /\ ValidCfg /\ pc = "series"
    /\ Len(samples) >= 2 /\ step < size
    /\ sum >= 1 /\ sum < size
    /\ GCInWindow(data, 0, size) # sum

=============================================================================
